---- MODULE Spec2Model ----
(***************************************************************************)
(* Model of src/components/data_validation.py: the DataValidation          *)
(* component (schema column check, dataset drift detection through the     *)
(* Evidently report, and the orchestrating initiate_data_validation).      *)
(*                                                                         *)
(* Python dicts are records; a key is present iff it is in the DOMAIN of   *)
(* the record.  Python values stored under dataset_drift are kept by their *)
(* repr ("True", "False", "None", ...) and converted by PyBool as bool()   *)
(* does.  A file is the set of its contents: {} is a missing file.         *)
(***************************************************************************)
EXTENDS Integers, Sequences, FiniteSets, TLC

VARIABLES
    pc,                       \* position inside initiate_data_validation
    outcome,                  \* "running", "returned" or "raised"
    failed_phase,             \* the step whose exception ended the run
    trace,                    \* the phases entered so far, in order
    schema_config,            \* self._schema_config
    data_files,               \* CSV files on disk, by path
    yaml_files,               \* YAML files on disk, by path
    write_count,              \* completed write_yaml_file calls
    train_df,                 \* local train_df of initiate_data_validation
    test_df,                  \* local test_df of initiate_data_validation
    detect_frame,             \* parameters of detect_dataset_drift
    lib_run,                  \* what Report.run received
    report_dict,              \* local report_dict of detect_dataset_drift
    drift,                    \* local drift of initiate_data_validation
    schema_train_col_status,
    schema_test_col_status,
    validation_status,
    artifacts                 \* the DataValidationArtifact returned, if any

vars == <<pc, outcome, failed_phase, trace, schema_config, data_files,
          yaml_files, write_count, train_df, test_df, detect_frame, lib_run,
          report_dict, drift, schema_train_col_status,
          schema_test_col_status, validation_status, artifacts>>

(***************************************************************************)
(* Bounds and input universes                                              *)
(***************************************************************************)
MaxCols == 2

MaxMetrics == 2

ColumnNames == {"age", "income"}

SeqUpTo(S, n) == UNION {[1..k -> S] : k \in 0..n}

IsInjective(s) == \A i, j \in DOMAIN s : s[i] = s[j] => i = j

\* Dataframes read_csv can return: column labels are unique.
DataFrames == {s \in SeqUpTo(ColumnNames, MaxCols) : IsInjective(s)}

\* The schema file is arbitrary YAML: with a "columns" list, or without one.
SchemaConfigs ==
    {[columns |-> c] : c \in SeqUpTo(ColumnNames, MaxCols)}
        \cup {[numerical_columns |-> <<>>]}

\* Entries of report_dict["metrics"] as the drift library may dump them.
MetricEntries ==
    { [metric_id |-> "ValueDrift"],
      [result |-> [dataset_drift |-> "True"]],
      [result |-> [dataset_drift |-> "False", number_of_columns |-> 2,
                   number_of_drifted_columns |-> 0]],
      [result |-> [number_of_columns |-> 2, number_of_drifted_columns |-> 1]],
      [result |-> [drift_share |-> "0.5"]] }

ReportDicts ==
    {[metrics |-> ms] : ms \in SeqUpTo(MetricEntries, MaxMetrics)}
        \cup {[tests |-> <<>>]}

NoReport == [unset |-> TRUE]

Truncated == [truncated |-> TRUE]

(***************************************************************************)
(* Constructor arguments                                                   *)
(***************************************************************************)
data_ingestion_artifact ==
    [trained_file_path |-> "ingested/train.csv",
     test_file_path |-> "ingested/test.csv"]

data_validation_config ==
    [invalid_train_file_path |-> "invalid/train.csv",
     invalid_test_file_path |-> "invalid/test.csv",
     drift_report_file_path |-> "drift_report/report.yaml"]

DataPaths ==
    {data_ingestion_artifact.trained_file_path,
     data_ingestion_artifact.test_file_path,
     data_validation_config.invalid_train_file_path,
     data_validation_config.invalid_test_file_path}

YamlPaths == {data_validation_config.drift_report_file_path}

(***************************************************************************)
(* Pure helpers                                                            *)
(***************************************************************************)
\* Python bool() on a value given by its repr.
PyBool(v) == v \notin {"False", "None", "0", ""}

\* d.get("metrics", [])
GetMetrics(d) == IF "metrics" \in DOMAIN d THEN d.metrics ELSE <<>>

\* "dataset_drift" in res or "number_of_drifted_columns" in res, with
\* res = m.get("result", {})
IsSummary(m) ==
    /\ "result" \in DOMAIN m
    /\ \/ "dataset_drift" \in DOMAIN m.result
       \/ "number_of_drifted_columns" \in DOMAIN m.result

\* bool(res.get("dataset_drift", False))
SummaryDrift(m) ==
    IF "dataset_drift" \in DOMAIN m.result
    THEN PyBool(m.result.dataset_drift)
    ELSE FALSE

RECURSIVE LastMatchLoop(_, _, _)
LastMatchLoop(metrics, i, drift_status) ==
    IF i > Len(metrics) THEN drift_status
    ELSE IF IsSummary(metrics[i])
         THEN LastMatchLoop(metrics, i + 1, SummaryDrift(metrics[i]))
         ELSE LastMatchLoop(metrics, i + 1, drift_status)

\* The for loop over the metrics: the first summary sets drift_status and
\* breaks.
RECURSIVE MetricsLoop(_, _, _)
MetricsLoop(metrics, i, drift_status) ==
    IF i > Len(metrics) THEN drift_status
    ELSE IF IsSummary(metrics[i])
         THEN SummaryDrift(metrics[i])
         ELSE MetricsLoop(metrics, i + 1, drift_status)

\* drift_status = False, then the loop.
DriftStatus(d) == MetricsLoop(GetMetrics(d), 1, FALSE)

ColumnNamesEqual(dataframe) == dataframe = schema_config.columns

\* len(dataframe.columns) == len(self._schema_config["columns"])
validate_schema_columns(dataframe) ==
    Len(dataframe) = Len(schema_config.columns)

DropsTestStatus(train_status, test_status, drift_value) ==
    (train_status = TRUE) /\ (drift_value = FALSE)

\* schema_train_col_status is True and schema_test_col_status is True and
\* drift is False
CombineStatus(train_status, test_status, drift_value) ==
    (train_status = TRUE) /\ (test_status = TRUE) /\ (drift_value = FALSE)

RoutesByStatus(status) ==
    [validation_status |-> status,
     valid_train_file_path |->
        IF status
        THEN data_ingestion_artifact.trained_file_path
        ELSE data_validation_config.invalid_train_file_path,
     valid_test_file_path |->
        IF status
        THEN data_ingestion_artifact.test_file_path
        ELSE data_validation_config.invalid_test_file_path,
     invalid_train_file_path |->
        data_validation_config.invalid_train_file_path,
     invalid_test_file_path |->
        data_validation_config.invalid_test_file_path,
     drift_report_file_path |->
        data_validation_config.drift_report_file_path]

\* DataValidationArtifact(...)
BuildArtifact(status) ==
    [validation_status |-> status,
     valid_train_file_path |-> data_ingestion_artifact.trained_file_path,
     valid_test_file_path |-> data_ingestion_artifact.test_file_path,
     invalid_train_file_path |->
        data_validation_config.invalid_train_file_path,
     invalid_test_file_path |->
        data_validation_config.invalid_test_file_path,
     drift_report_file_path |->
        data_validation_config.drift_report_file_path]

\* Report.run(current_data, reference_data) of the drift library.
LibRun(current_data, reference_data) ==
    [current_data |-> current_data, reference_data |-> reference_data]

ReportRunSwapped(frame) == LibRun(frame.reference_df, frame.current_df)

\* report.run(current_df, reference_df)
ReportRun(frame) == LibRun(frame.current_df, frame.reference_df)

WriteSkipped(file_path, content) == yaml_files

\* write_yaml_file(file_path, content): the file now holds content.
write_yaml_file(file_path, content) ==
    [yaml_files EXCEPT ![file_path] = {content}]

SwallowAndReturn(phase) ==
    /\ pc' = "done"
    /\ outcome' = "raised"
    /\ failed_phase' = phase
    /\ artifacts' = {BuildArtifact(FALSE)}

\* except Exception as e: raise CustomerException(e, sys) from e
Raise(phase) ==
    /\ pc' = "done"
    /\ outcome' = "raised"
    /\ failed_phase' = phase
    /\ artifacts' = artifacts

(***************************************************************************)
(* Initial state: the object after __init__, the files before the run      *)
(***************************************************************************)
Init ==
    /\ pc = "read_train"
    /\ outcome = "running"
    /\ failed_phase = "none"
    /\ trace = <<"START">>
    /\ schema_config \in SchemaConfigs
    /\ \E tr, te \in {{}} \cup {{d} : d \in DataFrames} :
          data_files =
              [p \in DataPaths |->
                  IF p = data_ingestion_artifact.trained_file_path THEN tr
                  ELSE IF p = data_ingestion_artifact.test_file_path THEN te
                  ELSE {}]
    /\ yaml_files = [p \in YamlPaths |-> {}]
    /\ write_count = 0
    /\ train_df = <<>>
    /\ test_df = <<>>
    /\ detect_frame = [reference_df |-> <<>>, current_df |-> <<>>]
    /\ lib_run = LibRun(<<>>, <<>>)
    /\ report_dict = NoReport
    /\ drift = FALSE
    /\ schema_train_col_status = FALSE
    /\ schema_test_col_status = FALSE
    /\ validation_status = FALSE
    /\ artifacts = {}

(***************************************************************************)
(* read_data                                                               *)
(***************************************************************************)
Readable(file_path) == data_files[file_path] # {}

\* pd.read_csv(file_path)
read_data(file_path) == CHOOSE d \in data_files[file_path] : TRUE

(***************************************************************************)
(* initiate_data_validation, step by step                                  *)
(***************************************************************************)
\* train_df = DataValidation.read_data(trained_file_path)
ReadTrain ==
    /\ pc = "read_train"
    /\ trace' = Append(trace, "LOAD_DATASETS")
    /\ IF Readable(data_ingestion_artifact.trained_file_path)
       THEN /\ train_df' = read_data(data_ingestion_artifact.trained_file_path)
            /\ pc' = "read_test"
            /\ UNCHANGED <<outcome, failed_phase, artifacts>>
       ELSE /\ Raise("read_train")
            /\ UNCHANGED train_df
    /\ UNCHANGED <<schema_config, data_files, yaml_files, write_count,
                   test_df, detect_frame, lib_run, report_dict, drift,
                   schema_train_col_status, schema_test_col_status,
                   validation_status>>

\* test_df = DataValidation.read_data(test_file_path)
ReadTest ==
    /\ pc = "read_test"
    /\ IF Readable(data_ingestion_artifact.test_file_path)
       THEN /\ test_df' = read_data(data_ingestion_artifact.test_file_path)
            /\ pc' = "call_detect"
            /\ UNCHANGED <<outcome, failed_phase, artifacts>>
       ELSE /\ Raise("read_test")
            /\ UNCHANGED test_df
    /\ UNCHANGED <<trace, schema_config, data_files, yaml_files, write_count,
                   train_df, detect_frame, lib_run, report_dict, drift,
                   schema_train_col_status, schema_test_col_status,
                   validation_status>>

SkipDetect ==
    /\ pc = "call_detect"
    /\ pc' = "validate_train"
    /\ UNCHANGED <<outcome, failed_phase, trace, schema_config, data_files,
                   yaml_files, write_count, train_df, test_df, detect_frame,
                   lib_run, report_dict, drift, schema_train_col_status,
                   schema_test_col_status, validation_status, artifacts>>

\* drift = self.detect_dataset_drift(train_df, test_df): the call binds
\* reference_df and current_df
CallDetect ==
    /\ pc = "call_detect"
    /\ detect_frame' = [reference_df |-> train_df, current_df |-> test_df]
    /\ trace' = Append(trace, "DETECT_DRIFT")
    /\ pc' = "run_report"
    /\ UNCHANGED <<outcome, failed_phase, schema_config, data_files,
                   yaml_files, write_count, train_df, test_df, lib_run,
                   report_dict, drift, schema_train_col_status,
                   schema_test_col_status, validation_status, artifacts>>

\* evaluation = report.run(current_df, reference_df);
\* report_dict = evaluation.dump_dict()
\* The library either raises or yields some report.
RunReport ==
    /\ pc = "run_report"
    /\ lib_run' = ReportRun(detect_frame)
    /\ \/ /\ report_dict' \in ReportDicts
          /\ pc' = "write_yaml"
          /\ UNCHANGED <<outcome, failed_phase, artifacts>>
       \/ /\ Raise("run_report")
          /\ UNCHANGED report_dict
    /\ UNCHANGED <<trace, schema_config, data_files, yaml_files, write_count,
                   train_df, test_df, detect_frame, drift,
                   schema_train_col_status, schema_test_col_status,
                   validation_status>>

\* write_yaml_file(self.data_validation_config.drift_report_file_path,
\*                 report_dict)
\* A failed write leaves the file as it was or cut short.
WriteYaml ==
    /\ pc = "write_yaml"
    /\ trace' = Append(trace, "PERSIST_REPORT")
    /\ \/ /\ yaml_files' =
                write_yaml_file(data_validation_config.drift_report_file_path,
                                report_dict)
          /\ write_count' = write_count + 1
          /\ pc' = "extract"
          /\ UNCHANGED <<outcome, failed_phase, artifacts>>
       \/ /\ yaml_files' \in
                {yaml_files,
                 [yaml_files EXCEPT
                    ![data_validation_config.drift_report_file_path] =
                        {Truncated}]}
          /\ Raise("write_yaml")
          /\ UNCHANGED write_count
    /\ UNCHANGED <<schema_config, data_files, train_df, test_df,
                   detect_frame, lib_run, report_dict, drift,
                   schema_train_col_status, schema_test_col_status,
                   validation_status>>

\* The scan of report_dict["metrics"] and return drift_status; the caller
\* assigns it to drift.
ExtractDrift ==
    /\ pc = "extract"
    /\ drift' = DriftStatus(report_dict)
    /\ pc' = "validate_train"
    /\ UNCHANGED <<outcome, failed_phase, trace, schema_config, data_files,
                   yaml_files, write_count, train_df, test_df, detect_frame,
                   lib_run, report_dict, schema_train_col_status,
                   schema_test_col_status, validation_status, artifacts>>

\* train_schema_status = self.validate_schema_columns(train_set)
\* self._schema_config["columns"] raises when the key is missing.
ValidateTrain ==
    /\ pc = "validate_train"
    /\ trace' = Append(trace, "CHECK_SCHEMAS")
    /\ IF "columns" \in DOMAIN schema_config
       THEN /\ schema_train_col_status' = validate_schema_columns(train_df)
            /\ pc' = "validate_test"
            /\ UNCHANGED <<outcome, failed_phase, artifacts>>
       ELSE /\ Raise("validate_train")
            /\ UNCHANGED schema_train_col_status
    /\ UNCHANGED <<schema_config, data_files, yaml_files, write_count,
                   train_df, test_df, detect_frame, lib_run, report_dict,
                   drift, schema_test_col_status, validation_status>>

\* test_schema_status = self.validate_schema_columns(test_set)
ValidateTest ==
    /\ pc = "validate_test"
    /\ IF "columns" \in DOMAIN schema_config
       THEN /\ schema_test_col_status' = validate_schema_columns(test_df)
            /\ pc' = "combine"
            /\ UNCHANGED <<outcome, failed_phase, artifacts>>
       ELSE /\ Raise("validate_test")
            /\ UNCHANGED schema_test_col_status
    /\ UNCHANGED <<trace, schema_config, data_files, yaml_files, write_count,
                   train_df, test_df, detect_frame, lib_run, report_dict,
                   drift, schema_train_col_status, validation_status>>

CombineThenPersist ==
    /\ pc = "combine"
    /\ validation_status' =
          CombineStatus(schema_train_col_status, schema_test_col_status,
                        drift)
    /\ yaml_files' =
          write_yaml_file(data_validation_config.drift_report_file_path,
                          report_dict)
    /\ write_count' = write_count + 1
    /\ trace' = Append(trace, "COMBINE")
    /\ pc' = "emit"
    /\ UNCHANGED <<outcome, failed_phase, schema_config, data_files,
                   train_df, test_df, detect_frame, lib_run, report_dict,
                   drift, schema_train_col_status, schema_test_col_status,
                   artifacts>>

\* validation_status = (... and ... and ...)
Combine ==
    /\ pc = "combine"
    /\ validation_status' =
          CombineStatus(schema_train_col_status, schema_test_col_status,
                        drift)
    /\ trace' = Append(trace, "COMBINE")
    /\ pc' = "emit"
    /\ UNCHANGED <<outcome, failed_phase, schema_config, data_files,
                   yaml_files, write_count, train_df, test_df, detect_frame,
                   lib_run, report_dict, drift, schema_train_col_status,
                   schema_test_col_status, artifacts>>

\* data_validation_artifact = DataValidationArtifact(...); return it
Emit ==
    /\ pc = "emit"
    /\ artifacts' = {BuildArtifact(validation_status)}
    /\ trace' = trace \o <<"EMIT_ARTIFACT", "DONE">>
    /\ outcome' = "returned"
    /\ pc' = "done"
    /\ UNCHANGED <<failed_phase, schema_config, data_files, yaml_files,
                   write_count, train_df, test_df, detect_frame, lib_run,
                   report_dict, drift, schema_train_col_status,
                   schema_test_col_status, validation_status>>

Next ==
    \/ ReadTrain
    \/ ReadTest
    \/ CallDetect
    \/ RunReport
    \/ WriteYaml
    \/ ExtractDrift
    \/ ValidateTrain
    \/ ValidateTest
    \/ Combine
    \/ Emit

Spec == Init /\ [][Next]_vars

(***************************************************************************)
(* Vocabulary of the properties                                            *)
(***************************************************************************)
Range(s) == {s[i] : i \in DOMAIN s}

IsPrefix(s, t) == Len(s) <= Len(t) /\ \A i \in DOMAIN s : s[i] = t[i]

\* The order of the phases as the design document lists them.
SpecOrder ==
    <<"START", "LOAD_DATASETS", "CHECK_SCHEMAS", "DETECT_DRIFT", "COMBINE",
      "PERSIST_REPORT", "EMIT_ARTIFACT", "DONE">>

\* The order of the phases as initiate_data_validation runs them.
CodeOrder ==
    <<"START", "LOAD_DATASETS", "DETECT_DRIFT", "PERSIST_REPORT",
      "CHECK_SCHEMAS", "COMBINE", "EMIT_ARTIFACT", "DONE">>

\* Report.run has been called in this run.
LibraryCalled ==
    \/ pc \in {"write_yaml", "extract", "validate_train", "validate_test",
               "combine", "emit"}
    \/ outcome = "returned"
    \/ failed_phase \in {"run_report", "write_yaml", "validate_train",
                         "validate_test"}

\* detect_dataset_drift has returned its boolean in this run.
DriftReturned ==
    \/ pc \in {"validate_train", "validate_test", "combine", "emit"}
    \/ outcome = "returned"
    \/ failed_phase \in {"validate_train", "validate_test"}

TrainChecked ==
    pc \in {"validate_test", "combine", "emit"} \/ outcome = "returned"

TestChecked == pc \in {"combine", "emit"} \/ outcome = "returned"

NumberOfColumns(dataframe) == Cardinality(DOMAIN dataframe)

DriftReportFile == yaml_files[data_validation_config.drift_report_file_path]

\* Some entry of the report states that the dataset has not drifted.
ReportStatesNoDrift(d) ==
    \E i \in DOMAIN GetMetrics(d) :
        LET m == GetMetrics(d)[i] IN
            /\ "result" \in DOMAIN m
            /\ "dataset_drift" \in DOMAIN m.result
            /\ ~PyBool(m.result.dataset_drift)

\* The truth value of dataset_drift in the first summary entry of d.
FirstSummaryTruth(d) ==
    LET ms == GetMetrics(d)
        I == {i \in DOMAIN ms : IsSummary(ms[i])}
    IN  IF I = {} THEN FALSE
        ELSE LET k == CHOOSE i \in I : \A j \in I : i <= j
             IN  /\ "dataset_drift" \in DOMAIN ms[k].result
                 /\ PyBool(ms[k].result.dataset_drift)

(***************************************************************************)
(* Properties                                                              *)
(***************************************************************************)
\* C1: every returned artifact has validation_status equal to (train schema
\* status AND test schema status AND NOT drift); a test set whose column
\* count differs from the schema's forces validation_status = FALSE.
C1_CombinationLaw ==
    \A a \in artifacts :
        /\ a.validation_status =
              (schema_train_col_status /\ schema_test_col_status /\ ~drift)
        /\ NumberOfColumns(test_df) # NumberOfColumns(schema_config.columns)
              => ~a.validation_status

C1_Witness ==
    \E a \in artifacts :
        /\ NumberOfColumns(train_df) = NumberOfColumns(schema_config.columns)
        /\ NumberOfColumns(test_df) # NumberOfColumns(schema_config.columns)
        /\ schema_train_col_status /\ ~schema_test_col_status /\ ~drift
        /\ ~a.validation_status

\* C2 (as stated): the phases are entered in the order START, LOAD_DATASETS,
\* CHECK_SCHEMAS, DETECT_DRIFT, COMBINE, PERSIST_REPORT, EMIT_ARTIFACT, DONE:
\* schema checks before drift detection, persistence after the combination.
C2_SpecPhaseOrder == IsPrefix(trace, SpecOrder)

\* C2 (amended): the phases are entered in the order START, LOAD_DATASETS,
\* DETECT_DRIFT, PERSIST_REPORT, CHECK_SCHEMAS, COMBINE, EMIT_ARTIFACT, DONE:
\* drift detection and the write of the report come before the schema
\* checks, and a returned run has gone through all of them.
C2_CodePhaseOrder ==
    /\ IsPrefix(trace, CodeOrder)
    /\ outcome = "returned" => trace = CodeOrder

C2_Witness == outcome = "returned" /\ trace = CodeOrder

\* C3 (as stated): detect_dataset_drift returns FALSE only when the report
\* states that the dataset has not drifted; a report without a dataset-level
\* summary never yields drift = FALSE.
C3_NoSilentNoDrift ==
    (DriftReturned /\ ~drift) => ReportStatesNoDrift(report_dict)

\* C4: a run that fails in a phase ends raised with no artifact; an artifact
\* exists only for a run that returned after completing every phase, with
\* both datasets loaded, the schema usable and the report written.
C4_NoArtifactOnFailure ==
    /\ outcome = "raised" => (artifacts = {} /\ pc = "done")
    /\ failed_phase # "none" => outcome = "raised"
    /\ artifacts # {} =>
          /\ outcome = "returned"
          /\ trace = CodeOrder
          /\ Readable(data_ingestion_artifact.trained_file_path)
          /\ Readable(data_ingestion_artifact.test_file_path)
          /\ "columns" \in DOMAIN schema_config
          /\ write_count = 1
    /\ pc = "done" => outcome \in {"raised", "returned"}

C4_Witness ==
    /\ outcome = "raised"
    /\ failed_phase = "write_yaml"
    /\ DriftReportFile = {Truncated}
    /\ artifacts = {}

\* C5: with a schema that has a columns list, validate_schema_columns gives
\* TRUE exactly when the dataset has as many columns as the schema, whatever
\* the names and also for no columns, and does not raise; the schema config
\* never changes.
C5_SchemaColumnCount ==
    /\ [](("columns" \in DOMAIN schema_config) =>
            /\ TrainChecked =>
                 (schema_train_col_status <=>
                    NumberOfColumns(train_df) =
                        NumberOfColumns(schema_config.columns))
            /\ TestChecked =>
                 (schema_test_col_status <=>
                    NumberOfColumns(test_df) =
                        NumberOfColumns(schema_config.columns))
            /\ failed_phase \notin {"validate_train", "validate_test"})
    /\ [][schema_config' = schema_config]_vars

C5_Witness ==
    /\ TestChecked
    /\ train_df = <<"age">>
    /\ schema_config = [columns |-> <<"income">>]
    /\ schema_train_col_status
    /\ test_df = <<>>
    /\ ~schema_test_col_status

\* C6 (as stated): no step of detect_dataset_drift changes the persisted
\* drift report.
C6_DetectLeavesReport ==
    [][(pc \in {"run_report", "write_yaml", "extract"})
          => (yaml_files' = yaml_files)]_vars

\* C6 (amended): the report file is written only by the write_yaml_file call
\* inside detect_dataset_drift; no other step of the run writes it, and no
\* step changes the data files or the schema config.
C6_OnlyDetectWrites ==
    [][(/\ (yaml_files' # yaml_files \/ write_count' # write_count)
             => (pc = "write_yaml")
        /\ data_files' = data_files
        /\ schema_config' = schema_config)]_vars

C6_Witness ==
    /\ pc = "extract"
    /\ write_count = 1
    /\ DriftReportFile = {report_dict}

\* C7: the drift library receives the dataset of the ingestion artifact's
\* train path as reference data and the dataset of its test path as current
\* data; detect_dataset_drift receives them in the same roles.
C7_TrainIsReference ==
    LibraryCalled =>
        /\ lib_run.reference_data
              \in data_files[data_ingestion_artifact.trained_file_path]
        /\ lib_run.current_data
              \in data_files[data_ingestion_artifact.test_file_path]
        /\ detect_frame.reference_df = train_df
        /\ detect_frame.current_df = test_df

C7_Witness ==
    /\ LibraryCalled
    /\ data_files[data_ingestion_artifact.trained_file_path] = {<<"age">>}
    /\ data_files[data_ingestion_artifact.test_file_path]
          = {<<"income", "age">>}
    /\ lib_run.reference_data = <<"age">>
    /\ lib_run.current_data = <<"income", "age">>

\* C8: every returned artifact names the ingestion artifact's train and test
\* paths as valid paths and the validation config's invalid and drift report
\* paths, whatever the statuses are; the run never changes a data file.
C8_PathsPassThrough ==
    /\ [](\A a \in artifacts :
            /\ a.valid_train_file_path =
                  data_ingestion_artifact.trained_file_path
            /\ a.valid_test_file_path =
                  data_ingestion_artifact.test_file_path
            /\ a.invalid_train_file_path =
                  data_validation_config.invalid_train_file_path
            /\ a.invalid_test_file_path =
                  data_validation_config.invalid_test_file_path
            /\ a.drift_report_file_path =
                  data_validation_config.drift_report_file_path)
    /\ [][data_files' = data_files]_vars

C8_Witness ==
    \E a \in artifacts :
        /\ ~a.validation_status
        /\ drift
        /\ a.valid_train_file_path = "ingested/train.csv"
        /\ data_files["invalid/train.csv"] = {}

\* C9: the boolean detect_dataset_drift returns is the truth value of
\* dataset_drift in the first metrics entry whose result has the key
\* dataset_drift or number_of_drifted_columns; FALSE when that entry has no
\* dataset_drift, FALSE when there is no such entry; later entries are
\* ignored.
C9_FirstSummaryDecides ==
    DriftReturned => (drift <=> FirstSummaryTruth(report_dict))

C9_Witness ==
    /\ DriftReturned
    /\ report_dict =
          [metrics |->
              << [result |-> [number_of_columns |-> 2,
                              number_of_drifted_columns |-> 1]],
                 [result |-> [dataset_drift |-> "True"]] >>]
    /\ ~drift

\* C10: when an artifact is returned, the report was written exactly once,
\* the file at the artifact's drift_report_file_path holds the report the
\* drift value was computed from, whatever the statuses; the file stays
\* written when a later step raises.
C10_ReportWrittenOnce ==
    /\ \A a \in artifacts :
          /\ write_count = 1
          /\ "PERSIST_REPORT" \in Range(trace)
          /\ yaml_files[a.drift_report_file_path] = {report_dict}
          /\ \A written \in yaml_files[a.drift_report_file_path] :
                drift <=> DriftStatus(written)
          /\ a.validation_status => ~drift
    /\ failed_phase \in {"validate_train", "validate_test"} =>
          /\ write_count = 1
          /\ DriftReportFile = {report_dict}

C10_Witness ==
    /\ failed_phase = "validate_train"
    /\ write_count = 1
    /\ DriftReportFile = {report_dict}
    /\ report_dict \in ReportDicts

TypeOK ==
    /\ pc \in {"read_train", "read_test", "call_detect", "run_report",
                "write_yaml", "extract", "validate_train", "validate_test",
                "combine", "emit", "done"}
    /\ outcome \in {"running", "returned", "raised"}
    /\ schema_config \in SchemaConfigs
    /\ train_df \in DataFrames /\ test_df \in DataFrames
    /\ report_dict \in ReportDicts \cup {NoReport}
    /\ drift \in BOOLEAN /\ validation_status \in BOOLEAN
    /\ write_count \in 0..1

====
